---------------------------- MODULE Spec2Model ----------------------------
(***************************************************************************)
(* Lung-cancer risk prediction: the scoring service (backend/app.py) and   *)
(* the training pipeline (backend/lungcancer.py).                          *)
(*                                                                         *)
(* Numbers.  A Python float is an IEEE 754 double: every arithmetic        *)
(* operation, every conversion from text and round() give the correctly    *)
(* rounded double, with overflow to inf, subnormals and nan.  Mantissas    *)
(* are arbitrary-size naturals (little-endian limbs).                      *)
(*                                                                         *)
(* Text.  A Python str is a sequence of code points.                       *)
(***************************************************************************)
EXTENDS Integers, Sequences, FiniteSets, TLC

VARIABLES
    bundle,     \* the artifacts loaded at import time (app.py:26-60)
    bundle0,    \* history: the bundle as it was loaded
    reqs,       \* per request: payload, position in predict_risk, locals
    fn,         \* a pure function applied once: its inputs and outputs
    train       \* the training run of lungcancer.py __main__

vars == <<bundle, bundle0, reqs, fn, train>>

(***************************************************************************)
(* Arbitrary-size naturals: little-endian limbs of 14 bits, no leading     *)
(* zero limb.  Carries are looked ahead rather than rippled, and products  *)
(* and powers are split in halves, so that no evaluation nests deeper than *)
(* the logarithm of the size of its operands.                              *)
(***************************************************************************)
Limb == 2^14

Max(a, b) == IF a > b THEN a ELSE b
Min(a, b) == IF a < b THEN a ELSE b
Abs(k) == IF k < 0 THEN -k ELSE k
\* the largest element of a set of integers: the one without a successor in
\* the set that no element exceeds
MaxOf(S) == CHOOSE x \in S : x + 1 \notin S /\ \A y \in S : y <= x
MinOf(S) == CHOOSE x \in S : \A y \in S : x <= y

BigNorm(a) ==
    LET nz == {i \in 1 .. Len(a) : a[i] # 0}
    IN  IF nz = {} THEN <<>> ELSE SubSeq(a, 1, MaxOf(nz))

BigFromNat(k) ==
    BigNorm(<<k % Limb, (k \div Limb) % Limb, k \div (Limb * Limb)>>)

BigLimb(a, i) == IF i <= Len(a) THEN a[i] ELSE 0

\* a + b: position i receives a carry when a lower position j overflows and
\* every position between them is full
BigAdd(a, b) ==
    LET n == Max(Len(a), Len(b))
        t == [i \in 1 .. n + 1 |-> BigLimb(a, i) + BigLimb(b, i)]
        c == [i \in 1 .. n + 1 |->
                 IF \E j \in 1 .. i - 1 :
                        t[j] >= Limb /\ \A k \in j + 1 .. i - 1 : t[k] = Limb - 1
                 THEN 1 ELSE 0]
    IN  BigNorm([i \in 1 .. n + 1 |-> (t[i] + c[i]) % Limb])

\* a - b for a >= b: position i lends when a lower position j is short and
\* every position between them is level
BigSub(a, b) ==
    LET c == [i \in 1 .. Len(a) |->
                 IF \E j \in 1 .. i - 1 :
                        /\ a[j] < BigLimb(b, j)
                        /\ \A k \in j + 1 .. i - 1 : a[k] = BigLimb(b, k)
                 THEN 1 ELSE 0]
    IN  BigNorm([i \in 1 .. Len(a) |-> (a[i] - BigLimb(b, i) - c[i] + Limb) % Limb])

\* a * Limb^n
BigShift(a, n) == IF a = <<>> THEN <<>> ELSE [i \in 1 .. n |-> 0] \o a

\* a * k for a limb k
BigMulLimb(a, k) ==
    BigAdd(BigNorm([i \in 1 .. Len(a) |-> (a[i] * k) % Limb]),
           BigShift(BigNorm([i \in 1 .. Len(a) |-> (a[i] * k) \div Limb]), 1))

\* a * (the limbs lo .. hi of b, in place)
RECURSIVE BigMulRange(_, _, _, _)
BigMulRange(a, b, lo, hi) ==
    IF lo > hi THEN <<>>
    ELSE IF lo = hi THEN BigShift(BigMulLimb(a, b[lo]), lo - 1)
    ELSE LET mid == (lo + hi) \div 2
         IN  BigAdd(BigMulRange(a, b, lo, mid), BigMulRange(a, b, mid + 1, hi))

BigMul(a, b) == BigMulRange(a, b, 1, Len(b))

\* -1, 0, 1 as a < b, a = b, a > b
BigCmp(a, b) ==
    IF Len(a) < Len(b) THEN -1
    ELSE IF Len(a) > Len(b) THEN 1
    ELSE IF a = b THEN 0
    ELSE LET i == MaxOf({k \in 1 .. Len(a) : a[k] # b[k]})
         IN  IF a[i] < b[i] THEN -1 ELSE 1

RECURSIVE BigPow10(_)
BigPow10(e) ==
    IF e = 0 THEN <<1>>
    ELSE LET h == BigPow10(e \div 2)
         IN  IF e % 2 = 0 THEN BigMul(h, h) ELSE BigMulLimb(BigMul(h, h), 10)

\* the number of bits of a limb, and of a natural
BitsOf(k) == IF k = 0 THEN 0 ELSE CHOOSE n \in 1 .. 14 : 2^(n - 1) <= k /\ k < 2^n

BigBits(a) == IF a = <<>> THEN 0 ELSE 14 * (Len(a) - 1) + BitsOf(a[Len(a)])

\* a * 2^s
BigShl(a, s) == BigShift(BigMulLimb(a, 2^(s % 14)), s \div 14)

\* floor(a / 2^s)
BigShr(a, s) ==
    LET q == s \div 14
        r == s % 14
        b == IF q >= Len(a) THEN <<>> ELSE SubSeq(a, q + 1, Len(a))
    IN  BigNorm([i \in 1 .. Len(b) |->
                    (b[i] \div 2^r) + (BigLimb(b, i + 1) % 2^r) * 2^(14 - r)])

\* bit s of a (bit 0 is the lowest)
BigBit(a, s) == (BigLimb(a, s \div 14 + 1) \div 2^(s % 14)) % 2

\* a mod 2^s is not zero
BigLowBits(a, s) ==
    \E i \in 1 .. Len(a) :
        /\ a[i] # 0
        /\ \/ i <= s \div 14
           \/ i = s \div 14 + 1 /\ a[i] % 2^(s % 14) # 0

\* the number of trailing zero bits of a # 0
BigTz(a) ==
    LET i == MinOf({k \in 1 .. Len(a) : a[k] # 0})
    IN  14 * (i - 1) + MinOf({z \in 0 .. 13 : (a[i] \div 2^z) % 2 = 1})

\* the largest k in lo .. hi with b * k <= r, given b * lo <= r < b * (hi + 1)
RECURSIVE BigDivLimb(_, _, _, _)
BigDivLimb(r, b, lo, hi) ==
    IF lo = hi THEN lo
    ELSE LET mid == (lo + hi + 1) \div 2
         IN  IF BigCmp(BigMulLimb(b, mid), r) <= 0
             THEN BigDivLimb(r, b, mid, hi)
             ELSE BigDivLimb(r, b, lo, mid - 1)

\* long division, one limb of the quotient per step: the quotient and the
\* remainder of the limbs i .. Len(a) of a by b.  The leading limbs of the
\* running remainder and of b bracket the limb of the quotient.
RECURSIVE BigDivAt(_, _, _)
BigDivAt(a, b, i) ==
    IF Len(a) - i + 1 < Len(b)
    THEN [q |-> <<>>, r |-> BigNorm(SubSeq(a, i, Len(a)))]
    ELSE LET hi == BigDivAt(a, b, i + 1)
             r1 == BigNorm(<<a[i]>> \o hi.r)
             rt == BigLimb(r1, Len(b) + 1) * Limb + BigLimb(r1, Len(b))
             bt == b[Len(b)]
             k == BigDivLimb(r1, b, rt \div (bt + 1), Min(Limb - 1, rt \div bt))
         IN  [q |-> BigNorm(<<k>> \o hi.q), r |-> BigSub(r1, BigMulLimb(b, k))]

\* floor(a / b) and a mod b, for b # 0
BigDivMod(a, b) == BigDivAt(a, b, 1)

(***************************************************************************)
(* Optional values: <<>> is None, <<v>> is v.                              *)
(***************************************************************************)
None == <<>>
Some(v) == <<v>>
IsNone(o) == o = <<>>
Val(o) == o[1]

(***************************************************************************)
(* Python floats: IEEE 754 binary64.  A finite value is (-1)^neg * m * 2^e *)
(* with m < 2^53 a natural, odd unless zero (then e = 0),                  *)
(* -1074 <= e <= 971; the others are nan, inf and -inf.  Every operation   *)
(* rounds its exact result to the nearest double, ties to even.            *)
(***************************************************************************)
FZero(neg) == [kind |-> "fin", neg |-> neg, m |-> <<>>, e |-> 0]
FNan == [kind |-> "nan", neg |-> FALSE, m |-> <<>>, e |-> 0]
FInf == [kind |-> "inf", neg |-> FALSE, m |-> <<>>, e |-> 0]
FNinf == [kind |-> "ninf", neg |-> TRUE, m |-> <<>>, e |-> 0]
FInfinity(neg) == IF neg THEN FNinf ELSE FInf

IsFinite(f) == f.kind = "fin"
IsZero(f) == f.kind = "fin" /\ f.m = <<>>

\* m * 2^e with the trailing zero bits of m moved into e
FinOdd(neg, m, e, z) == [kind |-> "fin", neg |-> neg, m |-> BigShr(m, z), e |-> e + z]
Fin(neg, m, e) == IF m = <<>> THEN FZero(neg) ELSE FinOdd(neg, m, e, BigTz(m))

\* The double nearest to (m + f) * 2^e, where f = 0, or 0 < f < 1 when sticky
\* (m then has at least 55 bits).  q is the exponent of the last bit kept:
\* 53 bits are kept, fewer below 2^-1022.  At 2^1024 the result is infinite.
FinOrInf(neg, m, e) ==
    IF BigBits(m) + e > 1024 THEN FInfinity(neg) ELSE Fin(neg, m, e)

\* k, or k + 1 when the bits dropped are more than half of the last bit
\* kept, or exactly half and k is odd
RoundHalfEven(k, half, rest) ==
    IF half /\ (rest \/ BigBit(k, 0) = 1) THEN BigAdd(k, <<1>>) ELSE k

\* s low bits of m are dropped
RoundAt(neg, m, e, sticky, s) ==
    IF s <= 0 THEN FinOrInf(neg, m, e)
    ELSE FinOrInf(neg,
                  RoundHalfEven(BigShr(m, s), BigBit(m, s - 1) = 1,
                                sticky \/ BigLowBits(m, s - 1)),
                  e + s)

RoundToDouble(neg, m, e, sticky) ==
    IF m = <<>> THEN FZero(neg)
    ELSE RoundAt(neg, m, e, sticky, Max(e + BigBits(m) - 53, -1074) - e)

\* the double nearest to (n / d) * 2^e, for d # 0: n is scaled by 2^s so
\* that the quotient has 56 or 57 bits, and both by 2^z so that the leading
\* limb of the divisor is full
RoundQuotient(neg, dm, e, low) == RoundToDouble(neg, dm.q, e, dm.r # <<>> \/ low)

RoundRatioAt(neg, n, d, e, s, z) ==
    RoundQuotient(neg,
                  BigDivMod(IF s + z >= 0 THEN BigShl(n, s + z) ELSE BigShr(n, -(s + z)),
                            BigShl(d, z)),
                  e - s,
                  s + z < 0 /\ BigLowBits(n, -(s + z)))

RoundRatio(neg, n, d, e) ==
    IF n = <<>> THEN FZero(neg)
    ELSE RoundRatioAt(neg, n, d, e, 56 + BigBits(d) - BigBits(n), 14 * Len(d) - BigBits(d))

\* float(k) of an int k (exact: |k| < 2^31), and the double nearest to k / d
FromInt(k) == Fin(k < 0, BigFromNat(Abs(k)), 0)
Dbl(k, d) == RoundRatio(k < 0, BigFromNat(Abs(k)), BigFromNat(d), 0)

FOne == [kind |-> "fin", neg |-> FALSE, m |-> <<1>>, e |-> 0]

FNeg(a) ==
    CASE a.kind = "fin" -> [a EXCEPT !.neg = ~a.neg]
      [] a.kind = "inf" -> FNinf
      [] a.kind = "ninf" -> FInf
      [] a.kind = "nan" -> FNan

\* -1, 0, 1 as |a| < |b|, |a| = |b|, |a| > |b|, for finite a and b
FCmpAbs(a, b) ==
    LET ta == BigBits(a.m) + a.e
        tb == BigBits(b.m) + b.e
        e0 == IF a.e < b.e THEN a.e ELSE b.e
    IN  IF a.m = <<>> \/ b.m = <<>>
        THEN (IF a.m = b.m THEN 0 ELSE IF a.m = <<>> THEN -1 ELSE 1)
        ELSE IF ta < tb THEN -1
        ELSE IF ta > tb THEN 1
        ELSE BigCmp(BigShl(a.m, a.e - e0), BigShl(b.m, b.e - e0))

\* a < b, a <= b, a == b as Python evaluates them: False when either is nan
FLt(a, b) ==
    /\ a.kind # "nan" /\ b.kind # "nan"
    /\ CASE a.kind = "inf" -> FALSE
         [] a.kind = "ninf" -> b.kind # "ninf"
         [] a.kind = "fin" ->
               CASE b.kind = "inf" -> TRUE
                 [] b.kind = "ninf" -> FALSE
                 [] b.kind = "fin" ->
                       LET an == a.neg /\ a.m # <<>>
                           bn == b.neg /\ b.m # <<>>
                       IN  IF an # bn THEN an
                           ELSE FCmpAbs(a, b) = (IF an THEN 1 ELSE -1)

FEq(a, b) ==
    /\ a.kind # "nan" /\ b.kind # "nan"
    /\ a.kind = b.kind
    /\ a.kind = "fin" => a.m = b.m /\ a.e = b.e /\ (a.neg = b.neg \/ a.m = <<>>)

FLe(a, b) == FLt(a, b) \/ FEq(a, b)

\* (-1)^an * x * 2^e0 + (-1)^bn * y * 2^e0; equal magnitudes of opposite
\* signs give +0.0
FAddAligned(an, x, bn, y, e0) ==
    IF an # bn /\ x = y THEN FZero(FALSE)
    ELSE RoundToDouble(IF an = bn \/ BigCmp(x, y) > 0 THEN an ELSE bn,
                       IF an = bn THEN BigAdd(x, y)
                       ELSE IF BigCmp(x, y) > 0 THEN BigSub(x, y)
                       ELSE BigSub(y, x),
                       e0, FALSE)

\* a + b
FAdd(a, b) ==
    IF a.kind = "nan" \/ b.kind = "nan" THEN FNan
    ELSE IF a.kind # "fin" /\ b.kind # "fin"
    THEN (IF a.kind = b.kind THEN a ELSE FNan)
    ELSE IF a.kind # "fin" THEN a
    ELSE IF b.kind # "fin" THEN b
    ELSE FAddAligned(a.neg, BigShl(a.m, a.e - Min(a.e, b.e)),
                     b.neg, BigShl(b.m, b.e - Min(a.e, b.e)), Min(a.e, b.e))

\* a - b
FSub(a, b) == FAdd(a, FNeg(b))

\* a * b
FMul(a, b) ==
    IF a.kind = "nan" \/ b.kind = "nan" THEN FNan
    ELSE IF a.kind # "fin" \/ b.kind # "fin"
    THEN (IF IsZero(a) \/ IsZero(b) THEN FNan ELSE FInfinity(a.neg # b.neg))
    ELSE RoundToDouble(a.neg # b.neg, BigMul(a.m, b.m), a.e + b.e, FALSE)

\* a / b for b # 0 (a zero divisor raises ZeroDivisionError)
FDiv(a, b) ==
    IF a.kind = "nan" \/ b.kind = "nan" THEN FNan
    ELSE IF a.kind # "fin"
    THEN (IF b.kind # "fin" THEN FNan ELSE FInfinity(a.neg # b.neg))
    ELSE IF b.kind # "fin" THEN FZero(a.neg # b.neg)
    ELSE RoundRatio(a.neg # b.neg, a.m, b.m, a.e - b.e)

\* Python's min(a, b) and max(a, b): the first argument unless the second
\* is strictly smaller (larger).
PyMin(a, b) == IF FLt(b, a) THEN b ELSE a
PyMax(a, b) == IF FLt(a, b) THEN b ELSE a

\* the double nearest to k/100, for k the multiple nearest to n / 2^s
Hundredths(neg, n, s) ==
    RoundRatio(neg,
               RoundHalfEven(BigShr(n, s), BigBit(n, s - 1) = 1, BigLowBits(n, s - 1)),
               <<100>>, 0)

\* round(x, 2): the exact value of x is rounded to a multiple k of 1/100, a
\* tie to the even k, and the result is the double nearest to k/100
Round2(x) ==
    IF x.kind # "fin" \/ x.e >= 0 THEN x
    ELSE Hundredths(x.neg, BigMulLimb(x.m, 100), -x.e)

(***************************************************************************)
(* Python text.  A str is a sequence of code points.  The alphabet of the  *)
(* model is the code points below 256, the Unicode blanks, the Unicode     *)
(* decimal digits, and U+0130 and U+212A (the two characters above 255     *)
(* whose lower case has an ASCII letter).                                  *)
(***************************************************************************)
\* the printable ASCII characters, space (32) to tilde (126); the place of
\* the grave accent (96), which no literal of this module needs, is empty
Printable ==
    <<
      " ", "!", "\"", "#", "$", "%", "&", "'", "(", ")", "*", "+", ",",
      "-", ".", "/", "0", "1", "2", "3", "4", "5", "6", "7", "8", "9", ":",
      ";", "<", "=", ">", "?", "@", "A", "B", "C", "D", "E", "F", "G", "H",
      "I", "J", "K", "L", "M", "N", "O", "P", "Q", "R", "S", "T", "U", "V",
      "W", "X", "Y", "Z", "[", "\\", "]", "^", "_", "", "a", "b", "c",
      "d", "e", "f", "g", "h", "i", "j", "k", "l", "m", "n", "o", "p", "q",
      "r", "s", "t", "u", "v", "w", "x", "y", "z", "{", "|", "}", "~" >>

\* ord(c) of a printable ASCII character, and the str written with such
\* characters
Ord(c) == 31 + CHOOSE i \in 1 .. Len(Printable) : Printable[i] = c
Text(s) == [i \in 1 .. Len(s) |-> Ord(s[i])]

\* the code points of "-", "+", ".", "_", " " and "e"
Minus == 45
Plus == 43
Dot == 46
Underscore == 95
Space == 32
LetterE == 101
\* "?", a character no number contains
Invalid == 63

\* the concatenation of the sequences seqs[lo], ..., seqs[hi]
RECURSIVE Concat(_, _, _)
Concat(seqs, lo, hi) ==
    IF lo > hi THEN <<>>
    ELSE IF lo = hi THEN seqs[lo]
    ELSE LET mid == (lo + hi) \div 2
         IN  Concat(seqs, lo, mid) \o Concat(seqs, mid + 1, hi)

\* str.isspace() of one character: the characters str.strip() removes
IsSpace(c) ==
    \/ c \in 9 .. 13 \/ c \in 28 .. 32 \/ c \in {133, 160, 5760}
    \/ c \in 8192 .. 8202 \/ c \in {8232, 8233, 8239, 8287, 12288}

\* str.strip()
Strip(s) ==
    LET keep == {i \in 1 .. Len(s) : ~IsSpace(s[i])}
    IN  IF keep = {} THEN <<>> ELSE SubSeq(s, MinOf(keep), MaxOf(keep))

\* str.lower() of one character
LowerChar(c) ==
    IF c \in 65 .. 90 \/ c \in 192 .. 214 \/ c \in 216 .. 222 THEN <<c + 32>>
    ELSE IF c = 304 THEN <<105, 775>>
    ELSE IF c = 8490 THEN <<107>>
    ELSE <<c>>

\* str.lower()
Lower(s) == Concat([i \in 1 .. Len(s) |-> LowerChar(s[i])], 1, Len(s))

\* the code points of the digit zero in each script with decimal digits;
\* the nine code points after each are its digits one to nine
DecimalZeros ==
    {
      48, 1632, 1776, 1984, 2406, 2534, 2662, 2790, 2918, 3046, 3174, 3302,
      3430, 3558, 3664, 3792, 3872, 4160, 4240, 6112, 6160, 6470, 6608,
      6784, 6800, 6992, 7088, 7232, 7248, 42528, 43216, 43264, 43472,
      43504, 43600, 44016, 65296, 66720, 68912, 69734, 69872, 69942, 70096,
      70384, 70736, 70864, 71248, 71360, 71472, 71904, 72016, 72784, 73040,
      73120, 92768, 92864, 93008, 120782, 120792, 120802, 120812, 120822,
      123200, 123632, 125264, 130032 }

IsDecimal(c) == \E z \in DecimalZeros : c \in z .. z + 9
DecimalVal(c) == c - (CHOOSE z \in DecimalZeros : c \in z .. z + 9)

IsDigit(c) == c \in 48 .. 57
DigitVal(c) == c - 48

\* str(k) of an int k
RECURSIVE NatStr(_)
NatStr(k) ==
    IF k < 10 THEN <<48 + k>> ELSE NatStr(k \div 10) \o <<48 + (k % 10)>>

IntStr(k) == IF k < 0 THEN <<Minus>> \o NatStr(-k) ELSE NatStr(k)

(***************************************************************************)
(* A raw attribute of a request, a value of meta.json or a CSV cell: None, *)
(* a bool, an int (a small one, or a power of ten of any size), a float    *)
(* (the finite floats are the doubles nearest to i/10; nan, inf, -inf), a  *)
(* str, or an empty list (a value that is none of these).                  *)
(***************************************************************************)
NoneV == [tag |-> "none", b |-> FALSE, i |-> 0, s |-> <<>>]
BoolV(b) == [tag |-> "bool", b |-> b, i |-> 0, s |-> <<>>]
IntV(i) == [tag |-> "int", b |-> FALSE, i |-> i, s |-> <<>>]
\* the int 10 ** n
PowTenV(n) == [tag |-> "pow10", b |-> FALSE, i |-> n, s |-> <<>>]
FloatV(tenths) == [tag |-> "float", b |-> FALSE, i |-> tenths, s |-> <<>>]
NanV == [tag |-> "nan", b |-> FALSE, i |-> 0, s |-> <<>>]
InfV == [tag |-> "inf", b |-> FALSE, i |-> 0, s |-> <<>>]
NinfV == [tag |-> "ninf", b |-> FALSE, i |-> 0, s |-> <<>>]
StrV(s) == [tag |-> "str", b |-> FALSE, i |-> 0, s |-> s]
ListV == [tag |-> "list", b |-> FALSE, i |-> 0, s |-> <<>>]

\* a call that returns v, and one that raises the exception e
Raised(e) == [raised |-> TRUE, exc |-> e, val |-> FNan]
Returned(v) == [raised |-> FALSE, exc |-> "", val |-> v]

\* sys.int_info.default_max_str_digits of CPython 3.11 and later: str() of
\* an int with more decimal digits raises ValueError, and so does int() of
\* a text with more digits
MaxStrDigits == 4300

\* str(val) raises: 10 ** n has n + 1 digits
StrRaises(v) == v.tag = "pow10" /\ v.i + 1 > MaxStrDigits

\* str(val), when it does not raise
PyStr(v) ==
    CASE v.tag = "none" -> Text(<<"N", "o", "n", "e">>)
      [] v.tag = "bool" -> IF v.b THEN Text(<<"T", "r", "u", "e">>)
                           ELSE Text(<<"F", "a", "l", "s", "e">>)
      [] v.tag = "int" -> IntStr(v.i)
      [] v.tag = "pow10" -> <<49>> \o [k \in 1 .. v.i |-> 48]
      [] v.tag = "float" ->
            (IF v.i < 0 THEN <<Minus>> ELSE <<>>)
                \o NatStr(Abs(v.i) \div 10) \o <<Dot>> \o NatStr(Abs(v.i) % 10)
      [] v.tag = "nan" -> Text(<<"n", "a", "n">>)
      [] v.tag = "inf" -> Text(<<"i", "n", "f">>)
      [] v.tag = "ninf" -> Text(<<"-", "i", "n", "f">>)
      [] v.tag = "str" -> v.s
      [] v.tag = "list" -> Text(<<"[", "]">>)

\* the result of a conversion that may raise
Ok(f) == [ok |-> TRUE, f |-> f]
Fail == [ok |-> FALSE, f |-> FNan]

(***************************************************************************)
(* float(s) of a str, as CPython does it: non-ASCII blanks become spaces   *)
(* and decimal digits of any script become ASCII digits; underscores are   *)
(* removed when each stands between two digits; C whitespace is stripped   *)
(* from both ends; what remains is [sign] inf | infinity | nan, or [sign]  *)
(* digits [. [digits]] [e [sign] digits] (. digits likewise), in any case. *)
(* Fail stands for ValueError.                                             *)
(***************************************************************************)
ToAscii(s) ==
    [i \in 1 .. Len(s) |->
        IF s[i] < 127 THEN s[i]
        ELSE IF IsSpace(s[i]) THEN Space
        ELSE IF IsDecimal(s[i]) THEN 48 + DecimalVal(s[i])
        ELSE Invalid]

\* every underscore stands between two digits
UnderscoresOK(s) ==
    \A i \in 1 .. Len(s) :
        s[i] = Underscore => /\ 1 < i /\ i < Len(s)
                           /\ IsDigit(s[i - 1]) /\ IsDigit(s[i + 1])

NotUnderscore(c) == c # Underscore

IsCSpace(c) == c \in 9 .. 13 \/ c = 32

StripCSpace(s) ==
    LET keep == {i \in 1 .. Len(s) : ~IsCSpace(s[i])}
    IN  IF keep = {} THEN <<>> ELSE SubSeq(s, MinOf(keep), MaxOf(keep))

AsciiLower(s) == [i \in 1 .. Len(s) |-> IF s[i] \in 65 .. 90 THEN s[i] + 32 ELSE s[i]]

AllDigits(s) == \A i \in 1 .. Len(s) : IsDigit(s[i])

DropZeros(s) ==
    LET nz == {i \in 1 .. Len(s) : s[i] # 48}
    IN  IF nz = {} THEN <<>> ELSE SubSeq(s, MinOf(nz), Len(s))

\* the natural written with the digits lo .. hi of s
RECURSIVE BigFromDigits(_, _, _)
BigFromDigits(s, lo, hi) ==
    IF lo > hi THEN <<>>
    ELSE IF lo = hi THEN BigFromNat(DigitVal(s[lo]))
    ELSE LET mid == (lo + hi) \div 2
         IN  BigAdd(BigMul(BigPow10(hi - mid), BigFromDigits(s, lo, mid)),
                    BigFromDigits(s, mid + 1, hi))

RECURSIVE NatOfDigits(_)
NatOfDigits(s) ==
    IF s = <<>> THEN 0
    ELSE 10 * NatOfDigits(SubSeq(s, 1, Len(s) - 1)) + DigitVal(s[Len(s)])

\* strtod's exponent: leading zeros are skipped, and an exponent of more
\* than nine digits is taken as 1100000000
ExpOfDigits(s) ==
    LET z == DropZeros(s) IN IF Len(z) > 9 THEN 1100000000 ELSE NatOfDigits(z)

IndexOf(s, c) ==
    IF \E i \in 1 .. Len(s) : s[i] = c
    THEN MinOf({i \in 1 .. Len(s) : s[i] = c})
    ELSE 0

HasSign(s) == s # <<>> /\ s[1] \in {Plus, Minus}
Unsigned(s) == IF HasSign(s) THEN Tail(s) ELSE s

\* The double nearest to digits * 10^e.  A value of 10^309 or more is
\* infinite and one below 10^-330 is zero, whatever its digits.
DecimalOf(neg, z, e) ==
    IF z = <<>> THEN FZero(neg)
    ELSE IF Len(z) + e > 309 THEN FInfinity(neg)
    ELSE IF Len(z) + e < -330 THEN FZero(neg)
    ELSE IF e >= 0
    THEN RoundToDouble(neg, BigMul(BigPow10(e), BigFromDigits(z, 1, Len(z))), 0, FALSE)
    ELSE RoundRatio(neg, BigFromDigits(z, 1, Len(z)), BigPow10(-e), 0)

Decimal(neg, digits, e) == DecimalOf(neg, DropZeros(digits), e)

InfWords == {Text(<<"i", "n", "f">>), Text(<<"i", "n", "f", "i", "n", "i", "t", "y">>)}
NanWord == Text(<<"n", "a", "n">>)

\* the exponent written in expo, the text after "e": [sign] digits
ExpOK(expo) == Unsigned(expo) # <<>> /\ AllDigits(Unsigned(expo))
ExpVal(expo) ==
    IF expo[1] = Minus THEN -ExpOfDigits(Unsigned(expo))
    ELSE ExpOfDigits(Unsigned(expo))

\* digits [. [digits]] or . digits: the integer part ip and the fraction fp.
\* strtod refuses a number with more than 10^9 digits after its leading
\* zeros, or more than 10^9 digits after the point.
ParseDigits(neg, ip, fp, expVal) ==
    IF /\ AllDigits(ip) /\ AllDigits(fp) /\ (ip # <<>> \/ fp # <<>>)
       /\ Len(DropZeros(ip \o fp)) <= 1000000000 /\ Len(fp) <= 1000000000
    THEN Ok(Decimal(neg, ip \o fp, expVal - Len(fp)))
    ELSE Fail

\* the mantissa mant, with its "." at dot (0: none)
ParseMantissa(neg, mant, dot, expVal) ==
    ParseDigits(neg,
                IF dot = 0 THEN mant ELSE SubSeq(mant, 1, dot - 1),
                IF dot = 0 THEN <<>> ELSE SubSeq(mant, dot + 1, Len(mant)),
                expVal)

ParseDecimal(neg, mant, expVal) == ParseMantissa(neg, mant, IndexOf(mant, Dot), expVal)

\* the unsigned text t, with its "e" at ePos (0: none)
ParseExponent(neg, t, ePos) ==
    IF ePos # 0 /\ ~ExpOK(SubSeq(t, ePos + 1, Len(t))) THEN Fail
    ELSE ParseDecimal(neg,
                      IF ePos = 0 THEN t ELSE SubSeq(t, 1, ePos - 1),
                      IF ePos = 0 THEN 0 ELSE ExpVal(SubSeq(t, ePos + 1, Len(t))))

ParseUnsigned(neg, t) ==
    IF t \in InfWords THEN Ok(FInfinity(neg))
    ELSE IF t = NanWord THEN Ok(FNan)
    ELSE ParseExponent(neg, t, IndexOf(t, LetterE))

ParseSigned(s) == ParseUnsigned(s # <<>> /\ s[1] = Minus, Unsigned(s))

\* the number, inf or nan written in s0, an ASCII text without blanks or
\* underscores
ParseNumber(s0) == ParseSigned(AsciiLower(s0))

FloatOfAscii(a) ==
    IF ~UnderscoresOK(a) THEN Fail
    ELSE ParseNumber(StripCSpace(SelectSeq(a, NotUnderscore)))

PyFloatOfStr(s0) == FloatOfAscii(ToAscii(s0))

\* float(val): TypeError (Fail) for None and for a list, OverflowError
\* (Fail) for an int of 10^309 or more
PyFloat(v) ==
    CASE v.tag = "none" -> Fail
      [] v.tag = "bool" -> Ok(FromInt(IF v.b THEN 1 ELSE 0))
      [] v.tag = "int" -> Ok(FromInt(v.i))
      [] v.tag = "pow10" -> IF v.i > 308 THEN Fail ELSE Ok(DecimalOf(FALSE, <<49>>, v.i))
      [] v.tag = "float" -> Ok(Dbl(v.i, 10))
      [] v.tag = "nan" -> Ok(FNan)
      [] v.tag = "inf" -> Ok(FInf)
      [] v.tag = "ninf" -> Ok(FNinf)
      [] v.tag = "str" -> PyFloatOfStr(v.s)
      [] v.tag = "list" -> Fail

\* f >= 0.5 on a float: False for nan
Half == [kind |-> "fin", neg |-> FALSE, m |-> <<1>>, e |-> -1]
GeHalf(f) == FLe(Half, f)

TrueWords == {Text(<<"1">>), Text(<<"y">>), Text(<<"y", "e", "s">>),
              Text(<<"t", "r", "u", "e">>), Text(<<"t">>)}
FalseWords == {Text(<<"0">>), Text(<<"n">>), Text(<<"n", "o">>),
               Text(<<"f", "a", "l", "s", "e">>), Text(<<"f">>)}

\* parse_bin lines 92-100 and _parse_bin lines 77-85 on the text s
Threshold(r) == IF r.ok THEN (IF GeHalf(r.f) THEN 1 ELSE 0) ELSE 0

ParseBinText(s) ==
    IF s \in TrueWords THEN 1
    ELSE IF s \in FalseWords THEN 0
    ELSE Threshold(PyFloatOfStr(s))

\* line 91 with its threshold test f > 0.5
TextToBin_strict(val) ==
    IF StrRaises(val) THEN Raised("ValueError")
    ELSE LET s == Lower(Strip(PyStr(val)))
             r == PyFloatOfStr(s)
         IN  IF s \in TrueWords THEN Returned(1)
             ELSE IF s \in FalseWords THEN Returned(0)
             ELSE IF r.ok /\ FLt(Half, r.f) THEN Returned(1) ELSE Returned(0)

\* parse_bin with the threshold test f > 0.5
parse_bin_strict(val) ==
    IF val.tag = "none" THEN Returned(0)
    ELSE IF val.tag = "bool" THEN Returned(IF val.b THEN 1 ELSE 0)
    ELSE TextToBin_strict(val)

\* parse_bin lines 91-100 and _parse_bin lines 75-85: str(val) stands before
\* the try, so its ValueError leaves the function
TextToBin(val) ==
    IF StrRaises(val) THEN Raised("ValueError")
    ELSE Returned(ParseBinText(Lower(Strip(PyStr(val)))))

\* app.py parse_bin: the int returned, or the exception raised
parse_bin(val) ==
    IF val.tag = "none" THEN Returned(0)
    ELSE IF val.tag = "bool" THEN Returned(IF val.b THEN 1 ELSE 0)
    ELSE TextToBin(val)

\* lungcancer.py _parse_bin
_parse_bin(val) ==
    IF val.tag = "none" THEN Returned(0)
    ELSE TextToBin(val)

\* app.py parse_float(val, default)
OrDefault(r, default) == IF r.ok THEN r.f ELSE default

parse_float(val, default) == OrDefault(PyFloat(val), default)


(***************************************************************************)
(* app.py helpers                                                          *)
(***************************************************************************)
Zero == FZero(FALSE)

\* eps: float = 1e-12, and 1.0 - eps
Eps == RoundRatio(FALSE, <<1>>, BigPow10(12), 0)
OneMinusEps == FSub(FOne, Eps)

\* max(min(float(x), 1.0 - eps), eps); a nan goes through both
_clip01(x) == PyMax(PyMin(x, OneMinusEps), Eps)

\* the literals 0.9999 and 100.0 of _to_percent
MaxShare == Dbl(9999, 10000)
Hundred == FromInt(100)

\* _to_percent(p) of an optional float
_to_percent(p) ==
    IF IsNone(p) THEN None
    ELSE LET q == PyMax(PyMin(Val(p), MaxShare), Zero)
         IN  Some(Round2(FMul(q, Hundred)))

\* Python's 0.0 < x < 1.0 on a float: False for nan, inf and -inf
InUnit(x) == FLt(Zero, x) /\ FLt(x, FOne)

\* lines 80-82 on the clipped p and priors in (0,1); no divisor is zero.
\* OddsToShare is line 82 on the product odds * base.
OddsToShare(ob) == _clip01(FDiv(ob, FAdd(FOne, ob)))

AdjustOdds(p, pi_train, pi_deploy) ==
    LET odds == FDiv(p, FSub(FOne, p))
        base == FDiv(FDiv(pi_deploy, FSub(FOne, pi_deploy)),
                     FDiv(pi_train, FSub(FOne, pi_train)))
    IN  OddsToShare(FMul(odds, base))

\* prior_adjust with the clip of p placed after the range check
prior_adjust_lateclip(p, pi_train, pi_deploy) ==
    IF IsNone(pi_train) THEN Raised("TypeError")
    ELSE IF ~InUnit(Val(pi_train)) THEN Returned(p)
    ELSE IF IsNone(pi_deploy) THEN Raised("TypeError")
    ELSE IF ~InUnit(Val(pi_deploy)) THEN Returned(p)
    ELSE Returned(AdjustOdds(_clip01(p), Val(pi_train), Val(pi_deploy)))

\* prior_adjust(p, pi_train, pi_deploy); the priors are optional values, and a
\* comparison of None with a float raises TypeError.  "and" short-circuits.
\* AdjustClipped is lines 78-82 on the p that line 77 clipped.
AdjustClipped(pc, pi_train, pi_deploy) ==
    IF IsNone(pi_train) THEN Raised("TypeError")
    ELSE IF ~InUnit(Val(pi_train)) THEN Returned(pc)
    ELSE IF IsNone(pi_deploy) THEN Raised("TypeError")
    ELSE IF ~InUnit(Val(pi_deploy)) THEN Returned(pc)
    ELSE Returned(AdjustOdds(pc, Val(pi_train), Val(pi_deploy)))

prior_adjust(p, pi_train, pi_deploy) == AdjustClipped(_clip01(p), pi_train, pi_deploy)

(***************************************************************************)
(* prior_adjust as a pure function: the inputs are drawn from grids, the   *)
(* step applies the function to (p, pi_train, d1) and (p, pi_train, d2).   *)
(***************************************************************************)
ProbDen == 4
PriorDen == 5

Idle == [pc |-> "idle"]

\* the double just above a positive finite double
NextUp(f) ==
    LET s == 53 - BigBits(f.m)
    IN  RoundToDouble(FALSE, BigAdd(BigShl(f.m, s), <<1>>), f.e - s, FALSE)

\* the smallest positive double, 5e-324
Tiny == Fin(FALSE, <<1>>, -1074)
\* 0.48 and the double just above it
AdjLo == Dbl(12, 25)
AdjHi == NextUp(AdjLo)

\* probabilities: nan and -1/ProbDen .. 1 + 1/ProbDen, 0 and 1 among them
ProbGrid == {FNan} \cup {Dbl(k, ProbDen) : k \in -1 .. ProbDen + 1}
\* priors: None, nan, and -1/PriorDen .. 1 + 1/PriorDen
PriorGrid == {None, Some(FNan)} \cup {Some(Dbl(k, PriorDen)) : k \in -1 .. PriorDen + 1}
TrainGrid == PriorGrid \cup {Some(Tiny)}
DeployGrid == PriorGrid \cup {Some(AdjLo), Some(AdjHi)}
\* the second pi_deploy, compared with the first: a prior in (0,1)
SecondGrid == {d \in DeployGrid : ~IsNone(d) /\ InUnit(Val(d))}

InitPrior ==
    /\ bundle = Idle /\ bundle0 = Idle /\ reqs = Idle /\ train = Idle
    /\ \E p \in ProbGrid, t \in TrainGrid, d1 \in DeployGrid, d2 \in SecondGrid :
          fn = [pc |-> "in", p |-> p, pi_train |-> t, d1 |-> d1, d2 |-> d2,
                out1 |-> Raised(""), out2 |-> Raised("")]

ApplyPriorAdjust ==
    /\ fn.pc = "in"
    /\ fn' = [fn EXCEPT !.pc = "out",
                        !.out1 = prior_adjust(fn.p, fn.pi_train, fn.d1),
                        !.out2 = prior_adjust(fn.p, fn.pi_train, fn.d2)]
    /\ UNCHANGED <<bundle, bundle0, reqs, train>>

NextPrior == ApplyPriorAdjust

SpecPrior == InitPrior /\ [][NextPrior]_vars

\* a prior that is a float outside (0,1), nan included
OutOfUnit(o) == ~IsNone(o) /\ ~InUnit(Val(o))
ValidPrior(o) == ~IsNone(o) /\ InUnit(Val(o))
InClipRange(x) == FLe(Eps, x) /\ FLe(x, OneMinusEps)

\* C5 as stated: whenever pi_train or pi_deploy is <= 0, >= 1 or None,
\* prior_adjust returns, without raising, the input probability p itself.
C5_Original ==
    (fn.pc = "out" /\ (~ValidPrior(fn.pi_train) \/ ~ValidPrior(fn.d1)))
        => (~fn.out1.raised /\ fn.out1.val = fn.p)

\* C5 amended: when pi_train is a float outside (0,1), or pi_train is valid
\* and pi_deploy is a float outside (0,1), prior_adjust returns _clip01(p)
\* without raising (p itself when eps <= p <= 1-eps, eps for a smaller p,
\* 1-eps for a larger p, nan for nan); when pi_train is None, or pi_train is
\* valid and pi_deploy is None, it raises TypeError.
C5_SkipReturnsClipped ==
    fn.pc = "out" =>
        /\ (OutOfUnit(fn.pi_train) \/ (ValidPrior(fn.pi_train) /\ OutOfUnit(fn.d1)))
              => /\ ~fn.out1.raised
                 /\ InClipRange(fn.p) => fn.out1.val = fn.p
                 /\ FLt(fn.p, Eps) => fn.out1.val = Eps
                 /\ FLt(OneMinusEps, fn.p) => fn.out1.val = OneMinusEps
                 /\ fn.p = FNan => fn.out1.val = FNan
        /\ (IsNone(fn.pi_train) \/ (ValidPrior(fn.pi_train) /\ IsNone(fn.d1)))
              => (fn.out1.raised /\ fn.out1.exc = "TypeError")

\* an out-of-range pi_deploy with p = 0: the call returned eps, not p
C5_Witness ==
    /\ fn.pc = "out" /\ ValidPrior(fn.pi_train) /\ OutOfUnit(fn.d1)
    /\ fn.p = Zero /\ ~fn.out1.raised /\ fn.out1.val = Eps

\* C6: for every p and pi_train, d1 < d2 all in (0,1), prior_adjust returns
\* for d1 a value strictly below the one it returns for d2, also at the
\* clipping bounds.
C6_StrictlyIncreasing ==
    (fn.pc = "out" /\ ValidPrior(fn.pi_train) /\ ValidPrior(fn.d1)
       /\ ValidPrior(fn.d2) /\ FLt(Val(fn.d1), Val(fn.d2)))
        => /\ ~fn.out1.raised /\ ~fn.out2.raised
           /\ FLt(fn.out1.val, fn.out2.val)

(***************************************************************************)
(* parse_bin and _parse_bin as pure functions: the value is drawn from the *)
(* raw values below, the step applies both parsers, and parse_bin again to *)
(* its own result.                                                         *)
(***************************************************************************)
MaxStrLen == 2
MaxInt == 2
MaxTenths == 12

Alphabet == Text(<<"0", "1", "5", ".", "-", "e", "y", "Y", "n", "t", "T", " ", "_">>)

\* with the vertical tab (11) and the unit separator (31)
Chars == {Alphabet[i] : i \in 1 .. Len(Alphabet)} \cup {11, 31}

RECURSIVE StringsUpTo(_)
StringsUpTo(k) ==
    IF k = 0 THEN {<<>>}
    ELSE LET shorter == StringsUpTo(k - 1)
         IN  shorter \cup {Append(s, c) : s \in {x \in shorter : Len(x) = k - 1},
                                          c \in Chars}

SampleStrings == {
    Text(<<"Y", "E", "S">>), Text(<<"y", "e", "s">>), Text(<<" ", "Y", "e", "s", " ">>),
    Text(<<"t", "r", "u", "e">>), Text(<<"T", "R", "U", "E">>), Text(<<"T", "r", "u", "e">>),
    Text(<<"f", "a", "l", "s", "e">>), Text(<<"F", "A", "L", "S", "E">>), Text(<<"N", "O">>),
    Text(<<"m", "a", "y", "b", "e">>), Text(<<"a", "b", "c">>), Text(<<"n", "a", "n">>),
    Text(<<"N", "a", "N">>), Text(<<"i", "n", "f">>), Text(<<"-", "i", "n", "f">>),
    Text(<<"I", "n", "f", "i", "n", "i", "t", "y">>), Text(<<"0", ".", "5">>),
    Text(<<"0", ".", "4", "9">>), Text(<<"0", ".", "5", "0">>), Text(<<"1", ".", "0">>),
    Text(<<"1", "e", "3">>), Text(<<"5", "E", "-", "1">>), Text(<<"4", "9", "e", "-", "2">>),
    Text(<<"1", "e", "4", "0", "0">>), Text(<<"1", "e", "-", "4", "0", "0">>),
    Text(<<"1", "_", "0">>), Text(<<"4", "2">>), Text(<<"+", "1">>), Text(<<"-", "1">>),
    <<9>> \o Text(<<"1">>) \o <<10>>, Text(<<"y", " ", "e", "s">>), Text(<<"1", ",", "0">>),
    Text(<<"0", "x", "1">>), Text(<<"1", " ", "0">>),
    \* blanks that strip() removes and float() may not: form feed (12),
    \* vertical tab (11), unit separator (31), next line (133), no-break
    \* space (160)
    <<12>> \o Text(<<"y", "e", "s">>), Text(<<"y", "e", "s">>) \o <<11>>,
    <<11>> \o Text(<<"1">>), Text(<<"1">>) \o <<12>>, <<31>> \o Text(<<"0", ".", "7">>),
    <<133>> \o Text(<<"0", ".", "7">>), Text(<<"0", ".", "7">>) \o <<160>>,
    Text(<<"0", ".">>) \o <<31>> \o Text(<<"7">>),
    \* Arabic-Indic digits (1632 is zero), and a capital whose lower case is
    \* two characters (304)
    <<1633>>, <<1632>> \o Text(<<".">>) \o <<1637>>, <<304>>, Text(<<"T">>) \o <<304>>,
    \* decimals that round to another double
    Text(<<"0", ".", "4", "9", "9", "9", "9", "9", "9", "9", "9", "9", "9", "9",
           "9", "9", "9", "9", "9", "9", "9">>),
    Text(<<"0", ".", "4", "9", "9", "9", "9", "9", "9", "9", "9", "9", "9", "9",
           "9", "9", "9", "9", "9">>),
    Text(<<"2", "e", "3", "0", "8">>), Text(<<"1", "e", "-", "3", "2", "4">>),
    Text(<<"-", "2", "e", "3", "0", "8">>) }

RawStrings == StringsUpTo(MaxStrLen) \cup SampleStrings

\* powers of ten: 100, one of 401 digits, the largest and the smallest
\* around the digit limit of str(), and a larger one
PowersOfTen ==
    {PowTenV(n) : n \in {2, 400, MaxStrDigits - 1, MaxStrDigits, MaxStrDigits + 700}}

RawValues ==
    {NoneV, BoolV(TRUE), BoolV(FALSE), NanV, InfV, NinfV, ListV}
        \cup {IntV(i) : i \in -1 .. MaxInt}
        \cup PowersOfTen
        \cup {FloatV(t) : t \in -1 .. MaxTenths}
        \cup {StrV(s) : s \in RawStrings}

InitParse ==
    /\ bundle = Idle /\ bundle0 = Idle /\ reqs = Idle /\ train = Idle
    /\ \E v \in RawValues :
          fn = [pc |-> "in", v |-> v, app |-> Raised(""), trn |-> Raised(""),
                again |-> Raised("")]

\* parse_bin(parse_bin(v)), given the outcome of the inner call
ParseAgain(first) == IF first.raised THEN first ELSE parse_bin(IntV(first.val))

ApplyParseBin ==
    /\ fn.pc = "in"
    /\ fn' = [fn EXCEPT !.pc = "out",
                        !.app = parse_bin(fn.v),
                        !.trn = _parse_bin(fn.v),
                        !.again = ParseAgain(parse_bin(fn.v))]
    /\ UNCHANGED <<bundle, bundle0, reqs, train>>

NextParse == ApplyParseBin

SpecParse == InitParse /\ [][NextParse]_vars

\* the text of a value, trimmed and lower-cased
TrimmedLower(v) == Lower(Strip(PyStr(v)))

\* 2^54 - 1: a decimal d is at least 1/2 - 2^-55, and so is read as a double
\* of 0.5 or more, exactly when d * 2^55 >= 2^54 - 1
BelowHalf == BigSub(BigShl(<<1>>, 54), <<1>>)

\* The decimal 0.z, z a nonempty digit string without leading zeros, is at
\* least 1/2 - 2^-55.
FractionGeHalf(z) ==
    BigCmp(BigShl(BigFromDigits(z, 1, Len(z)), 55), BigMul(BelowHalf, BigPow10(Len(z)))) >= 0

\* The number z * 10^e is at least 1/2 - 2^-55, for digits z and an exponent
\* e; p is the number of digits before its decimal point.
DigitsGeHalf(z, p) ==
    /\ z # <<>>
    /\ p >= 0
    /\ p = 0 => FractionGeHalf(z)

\* The exponent written in ex, "" or e [sign] digits, when it is well formed:
\* the set holding its value; an exponent of ten digits or more counts as
\* 10^9, which no text of fewer than 10^9 characters tells from it.
ExponentOf(ex) ==
    IF ex = <<>> THEN {0}
    ELSE IF ex[1] # LetterE \/ Unsigned(Tail(ex)) = <<>>
            \/ ~AllDigits(Unsigned(Tail(ex))) THEN {}
    ELSE LET d == DropZeros(Unsigned(Tail(ex)))
             n == IF Len(d) > 9 THEN 1000000000 ELSE NatOfDigits(d)
         IN  {IF ex[2] = Minus THEN -n ELSE n}

\* The lower-case ASCII text a is [+] digits [. [digits]] [exponent] or
\* [+] . digits [exponent], of at most 10^9 digits, and the number it writes
\* is at least 1/2 - 2^-55; or it is [+] inf or [+] infinity.  The mantissa
\* ends at j, where the text ends or an "e" follows, and its integer part at
\* i, where the mantissa ends or a "." follows.
NumeralGeHalf(a) ==
    LET u == Unsigned(a)
    IN  /\ ~(a # <<>> /\ a[1] = Minus)
        /\ \/ u \in InfWords
           \/ \E j \in {k \in 0 .. Len(u) : k < Len(u) => u[k + 1] = LetterE} :
              \E i \in {k \in 0 .. j : k < j => u[k + 1] = Dot} :
                 LET ip == SubSeq(u, 1, i)
                     fp == SubSeq(u, i + 2, j)
                     z == DropZeros(ip \o fp)
                 IN  /\ AllDigits(ip) /\ AllDigits(fp) /\ ip \o fp # <<>>
                     /\ Len(z) <= 1000000000 /\ Len(fp) <= 1000000000
                     /\ \E e \in ExponentOf(SubSeq(u, j + 1, Len(u))) :
                           DigitsGeHalf(z, Len(z) + e - Len(fp))

\* the value's text is one float() accepts, with a value of 0.5 or more:
\* float() maps blanks and digits of other scripts to ASCII, drops the
\* underscores that stand between digits, strips the blanks at both ends and
\* rounds the numeral to the nearest double
NumberGeHalf(v) ==
    LET a == ToAscii(TrimmedLower(v))
    IN  /\ UnderscoresOK(a)
        /\ NumeralGeHalf(AsciiLower(StripCSpace(SelectSeq(a, NotUnderscore))))

\* the values C3 says parse to 1
C3_ShouldBeOne(v) ==
    \/ v.tag = "bool" /\ v.b
    \/ v.tag \notin {"none", "bool"} /\ TrimmedLower(v) \in TrueWords
    \/ v.tag \notin {"none", "bool"} /\ NumberGeHalf(v)

\* C3 as stated: parse_bin (and the trainer's _parse_bin) returns without
\* raising for every value, None, boolean, number or string; it returns 1
\* exactly for boolean true, a trimmed lower-cased text among 1/y/yes/true/t,
\* or a text that parses as a number >= 0.5, and 0 for every other value;
\* parse_bin(parse_bin(v)) = parse_bin(v).
C3_Original ==
    fn.pc = "out" =>
        /\ ~fn.app.raised /\ ~fn.trn.raised /\ ~fn.again.raised
        /\ fn.app.val = (IF C3_ShouldBeOne(fn.v) THEN 1 ELSE 0)
        /\ fn.trn = fn.app
        /\ fn.again = fn.app

\* C3 amended: for an int of more than 4300 decimal digits parse_bin and
\* _parse_bin raise the ValueError of str(val).  For every other value (None,
\* a boolean, a float, a string, an int of at most 4300 digits) they return
\* without raising: 1 exactly for boolean true, a trimmed lower-cased text
\* among 1/y/yes/true/t, or a text that float() accepts with a value >= 0.5,
\* and 0 otherwise; the result does not depend on the case of the text, and
\* parse_bin(parse_bin(v)) = parse_bin(v).
C3_ParseBin ==
    fn.pc = "out" =>
        IF fn.v.tag = "pow10" /\ fn.v.i >= MaxStrDigits
        THEN /\ fn.app = Raised("ValueError")
             /\ fn.trn = Raised("ValueError")
             /\ fn.again = Raised("ValueError")
        ELSE /\ fn.app = Returned(IF C3_ShouldBeOne(fn.v) THEN 1 ELSE 0)
             /\ fn.trn = fn.app
             /\ fn.again = fn.app
             /\ fn.v.tag = "str" => parse_bin(StrV(Lower(fn.v.s))) = fn.app

\* the largest power of ten that str() converts, an int of 4300 digits, was
\* parsed to 1, and parsing the result again gave 1
C3_Witness ==
    /\ fn.pc = "out" /\ fn.v = PowTenV(MaxStrDigits - 1)
    /\ fn.app = Returned(1) /\ fn.again = Returned(1)

(***************************************************************************)
(* The scoring service: the artifacts loaded at import time, and           *)
(* predict_risk run by concurrent requests.                                *)
(***************************************************************************)
NumericNames == {"age", "pack_years"}
BinaryNames == {"gender", "radon_exposure", "asbestos_exposure",
                "secondhand_smoke_exposure", "copd_diagnosis",
                "alcohol_consumption", "family_history"}
FeatureNames == NumericNames \cup BinaryNames

\* the defaults of meta.get("feature_order", ...) and meta.get("numeric_cols", ...)
DefaultFeatureOrder ==
    <<"age", "pack_years", "gender", "radon_exposure", "asbestos_exposure",
      "secondhand_smoke_exposure", "copd_diagnosis", "alcohol_consumption",
      "family_history">>
DefaultNumericCols == <<"age", "pack_years">>

\* list.index(name)
Index(seq, name) == CHOOSE i \in 1 .. Len(seq) : seq[i] = name

\* the exception float(val) raises on a value it does not convert
FloatError(v) ==
    IF v.tag = "str" THEN "ValueError"
    ELSE IF v.tag = "pow10" THEN "OverflowError"
    ELSE "TypeError"

\* lines 50-54 and 57-60: the environment value env when it is not empty and
\* its conversion r succeeded, otherwise what the name held before
FromEnv(env, r, before) == IF env # <<>> /\ r.ok THEN Some(r.f) ELSE before

\* PI_TRAIN after lines 46-54: float() of meta's pi_train when the key is
\* there, overridden by a non-empty environment value that float() accepts
LoadPiTrain(meta_pi_train, env_pi_train) ==
    FromEnv(env_pi_train, PyFloatOfStr(env_pi_train),
            IF IsNone(meta_pi_train) THEN None
            ELSE Some(PyFloat(Val(meta_pi_train)).f))

\* PI_DEPLOY after lines 56-60
LoadPiDeploy(env_pi_deploy) == FromEnv(env_pi_deploy, PyFloatOfStr(env_pi_deploy), None)

\* json.load on line 39 raises ValueError: meta.json writes an int of more
\* than MaxStrDigits digits, which int() refuses as str() does
JsonRaises(meta) ==
    /\ ~IsNone(meta.pi_train)
    /\ Val(meta.pi_train).tag = "pow10"
    /\ Val(meta.pi_train).i + 1 > MaxStrDigits

\* the exception that ends the import, "" when there is none: lines 26-29,
\* json.load on line 39, and float() of meta's pi_train on line 46
LoadError(files, meta) ==
    IF ~files.scaler \/ ~files.model THEN "FileNotFoundError"
    ELSE IF JsonRaises(meta) THEN "ValueError"
    ELSE IF ~IsNone(meta.pi_train) /\ ~PyFloat(Val(meta.pi_train)).ok
    THEN FloatError(Val(meta.pi_train))
    ELSE ""

\* The module-level state after import.  files says which of scaler.pkl and
\* model.pkl exist; meta is meta.json (each key may be absent; no file is a
\* meta without keys); the scaler holds mean_ and scale_ by column position,
\* fitted on the columns NUMERIC_COLS in that order (lungcancer.py:126).
\* When the import raises, error names the exception and nothing is served.
Imported(error, meta, stats, model, env_pi_train, env_pi_deploy) ==
    LET numeric == IF IsNone(meta.numeric_cols) THEN DefaultNumericCols
                   ELSE Val(meta.numeric_cols)
    IN  IF error # ""
        THEN [error |-> error, FEATURE_ORDER |-> <<>>, NUMERIC_COLS |-> <<>>,
              PI_TRAIN |-> None, PI_DEPLOY |-> None,
              scaler |-> [mean_ |-> <<>>, scale_ |-> <<>>], model |-> model]
        ELSE [error |-> "",
              FEATURE_ORDER |-> IF IsNone(meta.feature_order) THEN DefaultFeatureOrder
                                ELSE Val(meta.feature_order),
              NUMERIC_COLS |-> numeric,
              PI_TRAIN |-> LoadPiTrain(meta.pi_train, env_pi_train),
              PI_DEPLOY |-> LoadPiDeploy(env_pi_deploy),
              scaler |-> [mean_ |-> [i \in 1 .. Len(numeric) |-> stats[numeric[i]].mean],
                          scale_ |-> [i \in 1 .. Len(numeric) |-> stats[numeric[i]].std]],
              model |-> model]

LoadBundle(files, meta, stats, model, env_pi_train, env_pi_deploy) ==
    Imported(LoadError(files, meta), meta, stats, model, env_pi_train, env_pi_deploy)

\* step 1: a parse_bin call raises, which ends predict_risk
ParseRaises(p) == \E name \in BinaryNames : parse_bin(p[name]).raised

\* step 1: features_raw; age and pack_years are floats, the others ints
ParseFeatures(p) ==
    [name \in FeatureNames |->
        IF name \in NumericNames THEN parse_float(p[name], Zero)
        ELSE parse_bin(p[name]).val]

\* (x - mean) / scale; nan stays nan
Standardize(x, mean, scale) == FDiv(FSub(x, mean), scale)

\* scaler.transform(numeric_df) for the one-row frame `row`: column i is
\* standardized with the statistics of position i; an infinite entry raises
\* ValueError, a nan passes.
ScalerTransform(scaler, row) ==
    IF \E i \in 1 .. Len(row) : row[i].kind \in {"inf", "ninf"}
    THEN [raised |-> TRUE, row |-> <<>>]
    ELSE [raised |-> FALSE,
          row |-> [i \in 1 .. Len(row) |->
                      Standardize(row[i], scaler.mean_[i], scaler.scale_[i])]]

\* step 2: the row [age, pack_years] is labelled with NUMERIC_COLS, scaled,
\* and read back at NUMERIC_COLS.index(name)
ReadBack(b, features_raw, numeric_scaled) ==
    IF numeric_scaled.raised THEN [raised |-> TRUE, features |-> features_raw]
    ELSE [raised |-> FALSE,
          features |-> [features_raw EXCEPT
              !["age"] = numeric_scaled.row[Index(b.NUMERIC_COLS, "age")],
              !["pack_years"] = numeric_scaled.row[Index(b.NUMERIC_COLS, "pack_years")]]]

ScaleFeatures(b, features_raw) ==
    ReadBack(b, features_raw,
             ScalerTransform(b.scaler, <<features_raw["age"], features_raw["pack_years"]>>))

\* step 3: pd.DataFrame([features_scaled])[FEATURE_ORDER]
OrderedVector(order, features_scaled) ==
    [i \in 1 .. Len(order) |-> features_scaled[order[i]]]

\* a calibrated classifier as save_artifacts writes it (its estimator
\* attribute is the XGBClassifier), and a classifier without that attribute
Calibrated(proba) ==
    [class |-> "CalibratedClassifierCV", estimator |-> Some("XGBClassifier"),
     proba |-> proba]
Bare(proba) ==
    [class |-> "XGBClassifier", estimator |-> None, proba |-> proba]

\* lines 175-176: the class name of model.estimator, of model without it
ModelName(model) ==
    IF ~IsNone(model.estimator) THEN Val(model.estimator) ELSE model.class

\* model.predict_proba(x_df)[0, 1].  The classifier is a library object; it
\* is a fixed function of the bundle's model and of the vector.  "lo" and "hi"
\* answer 0 and 1; "count" answers with the share of strictly positive
\* entries among the first entries of the vector.
PositiveEntries(order, x) ==
    Cardinality({i \in 1 .. Len(x) :
                    /\ i <= 3
                    /\ IF order[i] \in NumericNames THEN FLt(Zero, x[i])
                       ELSE x[i] > 0})

predict_proba(model, order, x) ==
    CASE model.proba = "lo" -> Zero
      [] model.proba = "hi" -> FOne
      [] model.proba = "count" -> Dbl(PositiveEntries(order, x) + 1, 5)

\* line 168, with the process default taking priority
EffectivePiDeploy_defaultfirst(pi_deploy, PI_DEPLOY) ==
    IF ~IsNone(PI_DEPLOY) THEN PI_DEPLOY ELSE pi_deploy

\* line 168: use_pi_deploy
EffectivePiDeploy(pi_deploy, PI_DEPLOY) ==
    IF ~IsNone(pi_deploy) THEN pi_deploy ELSE PI_DEPLOY

\* lines 169-170: used_adjustment
UsedAdjustment(PI_TRAIN, use_pi_deploy) ==
    /\ ~IsNone(PI_TRAIN)
    /\ ~IsNone(use_pi_deploy)
    /\ InUnit(Val(use_pi_deploy))

\* steps 5 and return: the response body
\* lines 173-186
ResponseBody(b, use_pi_deploy, used_adjustment, p_adj, features_raw, p_raw) ==
    [model |-> ModelName(b.model),
     risk_percentage |-> _to_percent(IF used_adjustment THEN p_adj ELSE Some(p_raw)),
     raw_risk_percentage |-> _to_percent(Some(p_raw)),
     adjusted_risk_percentage |->
         IF ~IsNone(p_adj) THEN _to_percent(p_adj) ELSE None,
     adjusted_for_prevalence |-> used_adjustment,
     pi_train |-> b.PI_TRAIN,
     pi_deploy |-> use_pi_deploy,
     inputs_used |-> features_raw]

\* lines 171-172: p_adj
Adjusted(b, use_pi_deploy, used_adjustment, features_raw, p_raw) ==
    ResponseBody(b, use_pi_deploy, used_adjustment,
                  IF used_adjustment
                  THEN Some(prior_adjust(p_raw, b.PI_TRAIN, use_pi_deploy).val)
                  ELSE None,
                  features_raw, p_raw)

Response(b, pi_deploy, features_raw, p_raw) ==
    LET use_pi_deploy == EffectivePiDeploy(pi_deploy, b.PI_DEPLOY)
    IN  Adjusted(b, use_pi_deploy, UsedAdjustment(b.PI_TRAIN, use_pi_deploy),
                 features_raw, p_raw)

NoFeatures == [name \in FeatureNames |-> IF name \in NumericNames THEN Zero ELSE 0]

\* a request in flight: its body p and query parameter pi_deploy
Arrived(p, pi_deploy) ==
    [pc |-> "parse", p |-> p, pi_deploy |-> pi_deploy,
     features_raw |-> NoFeatures, features_scaled |-> NoFeatures,
     x_df |-> <<>>, p_raw |-> Zero, resp |-> None]

Absent == [pc |-> "absent"]

NumRequests == 2
Requests == 1 .. NumRequests

\* the import succeeded: the application exists and takes requests
Serving == bundle.error = ""

\* lines 139-149.  A ValueError of parse_bin ends the request; it takes an
\* int of more than MaxStrDigits digits, which the JSON decoder of the same
\* interpreter refuses, so no decoded request body carries one.
Parse(r) ==
    /\ Serving
    /\ reqs[r].pc = "parse"
    /\ reqs' = IF ParseRaises(reqs[r].p)
               THEN [reqs EXCEPT ![r].pc = "error"]
               ELSE [reqs EXCEPT ![r].pc = "scale",
                                 ![r].features_raw = ParseFeatures(reqs[r].p)]
    /\ UNCHANGED <<bundle, bundle0, fn, train>>

\* lines 152-159; a ValueError of the scaler ends the request
Scaled(req, t) ==
    [req EXCEPT !.pc = IF t.raised THEN "error" ELSE "predict",
                !.features_scaled = t.features]

Scale(r) ==
    /\ Serving
    /\ reqs[r].pc = "scale"
    /\ reqs' = [reqs EXCEPT ![r] =
                    Scaled(reqs[r], ScaleFeatures(bundle, reqs[r].features_raw))]
    /\ UNCHANGED <<bundle, bundle0, fn, train>>

\* lines 162-165
Predict(r) ==
    /\ Serving
    /\ reqs[r].pc = "predict"
    /\ LET x == OrderedVector(bundle.FEATURE_ORDER, reqs[r].features_scaled)
       IN  reqs' = [reqs EXCEPT
               ![r].pc = "adjust",
               ![r].x_df = x,
               ![r].p_raw = _clip01(predict_proba(bundle.model,
                                                  bundle.FEATURE_ORDER, x))]
    /\ UNCHANGED <<bundle, bundle0, fn, train>>

\* Respond that also stores the request's override as the process default
Respond_writesdefault(r) ==
    /\ Serving
    /\ reqs[r].pc = "adjust"
    /\ reqs' = [reqs EXCEPT ![r].pc = "done",
                            ![r].resp = Some(Response(bundle, reqs[r].pi_deploy,
                                                      reqs[r].features_raw,
                                                      reqs[r].p_raw))]
    /\ bundle' = [bundle EXCEPT !.PI_DEPLOY =
                     EffectivePiDeploy(reqs[r].pi_deploy, bundle.PI_DEPLOY)]
    /\ UNCHANGED <<bundle0, fn, train>>

\* lines 168-186
Respond(r) ==
    /\ Serving
    /\ reqs[r].pc = "adjust"
    /\ reqs' = [reqs EXCEPT ![r].pc = "done",
                            ![r].resp = Some(Response(bundle, reqs[r].pi_deploy,
                                                      reqs[r].features_raw,
                                                      reqs[r].p_raw))]
    /\ UNCHANGED <<bundle, bundle0, fn, train>>

Next == \E r \in Requests : Parse(r) \/ Scale(r) \/ Predict(r) \/ Respond(r)

(***************************************************************************)
(* Deployments and requests                                                *)
(***************************************************************************)
\* scaler statistics by feature: age (50, 10), pack_years (20, 15)
TrainedStats ==
    [name \in NumericNames |->
        IF name = "age" THEN [mean |-> FromInt(50), std |-> FromInt(10)]
        ELSE [mean |-> FromInt(20), std |-> FromInt(15)]]

\* Another feature order.  app.py takes feature_order and numeric_cols from
\* meta.json, whatever wrote the file; save_artifacts itself always writes
\* DefaultFeatureOrder and DefaultNumericCols.
ReversedOrder ==
    [i \in 1 .. Len(DefaultFeatureOrder) |->
        DefaultFeatureOrder[Len(DefaultFeatureOrder) + 1 - i]]

\* no meta.json
NoMeta == [feature_order |-> None, numeric_cols |-> None, pi_train |-> None]
\* the meta.json save_artifacts writes
TrainedMeta == [feature_order |-> Some(DefaultFeatureOrder),
                numeric_cols |-> Some(DefaultNumericCols),
                pi_train |-> Some(FloatV(3))]
\* a meta.json that lists the numeric columns the other way round, beside a
\* scaler fitted on the columns in that order; no run of save_artifacts
\* writes it
SwappedMeta == [feature_order |-> Some(DefaultFeatureOrder),
                numeric_cols |-> Some(<<"pack_years", "age">>),
                pi_train |-> Some(FloatV(1))]
\* a meta.json with another feature order and a pi_train of 0; no run of
\* save_artifacts writes it
ReorderedMeta == [feature_order |-> Some(ReversedOrder),
                  numeric_cols |-> Some(DefaultNumericCols),
                  pi_train |-> Some(FloatV(0))]
\* a meta.json whose pi_train is null, and one whose pi_train is a text
NullMeta == [TrainedMeta EXCEPT !.pi_train = Some(NoneV)]
TextMeta == [TrainedMeta EXCEPT !.pi_train = Some(StrV(Text(<<"0", ".", "2">>)))]
WordMeta == [TrainedMeta EXCEPT !.pi_train = Some(StrV(Text(<<"l", "o", "w">>)))]
\* a meta.json whose pi_train is an int too large for a float (10^400), and
\* one whose pi_train is an int too long for json.load (10^4300)
LargeMeta == [TrainedMeta EXCEPT !.pi_train = Some(PowTenV(400))]
HugeMeta == [TrainedMeta EXCEPT !.pi_train = Some(PowTenV(MaxStrDigits))]

AllFiles == [scaler |-> TRUE, model |-> TRUE]
Files == [scaler : BOOLEAN, model : BOOLEAN]

Metas == {NoMeta, TrainedMeta, SwappedMeta, ReorderedMeta, NullMeta, TextMeta, WordMeta,
          LargeMeta, HugeMeta}
\* the environment's PI_TRAIN and PI_DEPLOY; 12 is a form feed, 11 a
\* vertical tab
EnvPiTrain ==
    {<<>>, Text(<<"0", ".", "1">>), Text(<<"1", ".", "5">>), Text(<<"a", "b", "c">>),
     <<12>> \o Text(<<"0", ".", "5">>), Text(<<"2", "e", "3", "0", "8">>),
     Text(<<"5", "e", "-", "3", "2", "4">>)}
EnvPiDeploy ==
    {<<>>, Text(<<"0", ".", "0", "1">>), Text(<<"2">>), Text(<<"x">>),
     <<11>> \o Text(<<"0", ".", "3">>), Text(<<"1", "e", "-", "3", "2", "4">>)}
Models == {Calibrated("count"), Calibrated("hi"), Bare("count")}

\* a deployment: the files in BASE_DIR, meta.json, the pickled model and the
\* environment
Deployment(files, meta, model, env_pi_train, env_pi_deploy) ==
    [files |-> files, meta |-> meta, model |-> model,
     env_pi_train |-> env_pi_train, env_pi_deploy |-> env_pi_deploy]

\* the import of app.py in a deployment
Import(d) ==
    LoadBundle(d.files, d.meta, TrainedStats, d.model, d.env_pi_train, d.env_pi_deploy)

\* every meta and every model under an empty environment; the trained meta
\* under every PI_TRAIN with and without a valid PI_DEPLOY, and under every
\* PI_DEPLOY; artifacts missing
Deployments ==
    {Deployment(AllFiles, m, Calibrated("count"), <<>>, <<>>) : m \in Metas}
      \cup {Deployment(AllFiles, TrainedMeta, c, <<>>, <<>>) : c \in Models}
      \cup {Deployment(AllFiles, TrainedMeta, Calibrated("count"), t, d) :
               t \in EnvPiTrain, d \in {<<>>, Text(<<"0", ".", "0", "1">>)}}
      \cup {Deployment(AllFiles, TrainedMeta, Calibrated("count"), <<>>, d) :
               d \in EnvPiDeploy}
      \cup {Deployment(f, NullMeta, Calibrated("count"), <<>>, <<>>) : f \in Files}

Bundles == {Import(d) : d \in Deployments}

FewBundles ==
    {Import(d) : d \in
        {Deployment(AllFiles, TrainedMeta, Calibrated("count"), <<>>,
                    Text(<<"0", ".", "0", "1">>)),
         Deployment(AllFiles, SwappedMeta, Calibrated("count"), <<>>, <<>>)}}

Body(age, pack_years, bins) ==
    [name \in FeatureNames |->
        IF name = "age" THEN age
        ELSE IF name = "pack_years" THEN pack_years
        ELSE bins[name]]

\* gender "yes", radon "no", asbestos 0, secondhand smoke "true", copd "n",
\* alcohol 1, family history "no"
ScenarioBins ==
    [name \in BinaryNames |->
        CASE name = "gender" -> StrV(Text(<<"y", "e", "s">>))
          [] name = "radon_exposure" -> StrV(Text(<<"n", "o">>))
          [] name = "asbestos_exposure" -> IntV(0)
          [] name = "secondhand_smoke_exposure" -> StrV(Text(<<"t", "r", "u", "e">>))
          [] name = "copd_diagnosis" -> StrV(Text(<<"n">>))
          [] name = "alcohol_consumption" -> IntV(1)
          [] name = "family_history" -> StrV(Text(<<"n", "o">>))]

NullBins == [name \in BinaryNames |-> NoneV]

OddBins ==
    [name \in BinaryNames |->
        CASE name = "gender" -> BoolV(TRUE)
          [] name = "radon_exposure" -> StrV(Text(<<"m", "a", "y", "b", "e">>))
          [] name = "asbestos_exposure" -> FloatV(5)
          [] name = "secondhand_smoke_exposure" -> StrV(Text(<<" ", "Y", "E", "S", " ">>))
          [] name = "copd_diagnosis" -> ListV
          [] name = "alcohol_consumption" -> StrV(Text(<<"n", "a", "n">>))
          [] name = "family_history" -> StrV(Text(<<"i", "n", "f">>))]

Ages == {IntV(50), FloatV(605), StrV(Text(<<"4", "2">>)), StrV(Text(<<"a", "b", "c">>)),
         NoneV, StrV(Text(<<"n", "a", "n">>)), StrV(Text(<<"i", "n", "f">>)),
         StrV(<<11>> \o Text(<<"6", "1">>)), StrV(Text(<<"2", "e", "3", "0", "8">>))}
PackYears == {IntV(20), StrV(Text(<<"3", "5">>))}
Bins == {ScenarioBins, NullBins, OddBins}
Overrides == {None, Some(FNan)} \cup {Some(Dbl(k, 100)) : k \in {1, 50, 150}}

\* every age with every override; every pack_years with every set of binary
\* answers
Arrivals ==
    {Arrived(Body(a, IntV(20), ScenarioBins), o) : a \in Ages, o \in Overrides}
      \cup {Arrived(Body(IntV(50), k, b), None) : k \in PackYears, b \in Bins}

\* a request with an override, one without, and one the scaler rejects
FewArrivals ==
    {Arrived(Body(IntV(50), IntV(20), ScenarioBins), Some(Dbl(1, 2))),
     Arrived(Body(FloatV(605), IntV(20), ScenarioBins), None),
     Arrived(Body(StrV(Text(<<"i", "n", "f">>)), IntV(20), ScenarioBins), None)}

\* concurrent requests against one loaded bundle
Init ==
    /\ fn = Idle /\ train = Idle
    /\ bundle \in FewBundles
    /\ bundle0 = bundle
    /\ reqs \in [Requests -> FewArrivals]

Spec == Init /\ [][Next]_vars

\* one request, any deployment
InitOne ==
    /\ fn = Idle /\ train = Idle
    /\ bundle \in Bundles
    /\ bundle0 = bundle
    /\ \E a \in Arrivals : reqs = [r \in Requests |-> IF r = 1 THEN a ELSE Absent]

SpecOne == InitOne /\ [][Next]_vars

(***************************************************************************)
(* The training run of lungcancer.py                                       *)
(***************************************************************************)
NUMERIC_COLS == <<"age", "pack_years">>
BINARY_COLS == <<"gender", "radon_exposure", "asbestos_exposure",
                 "secondhand_smoke_exposure", "copd_diagnosis",
                 "alcohol_consumption", "family_history">>
TARGET == "lung_cancer"
IdColumns == {"patient_id", "id", "uuid"}
ArtifactFiles == <<"scaler.pkl", "model.pkl", "meta.json">>

Elems(seq) == {seq[i] : i \in 1 .. Len(seq)}
ExpectedColumns == Elems(BINARY_COLS) \cup {TARGET} \cup Elems(NUMERIC_COLS)

\* the stages of a run, in the order __main__ calls them
StageOrder == <<"load", "validate", "encode", "split", "fit_scaler",
                "fit_classifier", "evaluate", "persist">>

Failed(t, e) == [t EXCEPT !.pc = "failed", !.error = e]

\* load_dataframe, lines 89-90
CheckCsv ==
    /\ train.pc = "start"
    /\ train' = IF train.csv_exists THEN [train EXCEPT !.pc = "read"]
                ELSE Failed(train, "FileNotFoundError")
    /\ UNCHANGED <<bundle, bundle0, reqs, fn>>

\* lines 92-97: read_csv, identifier columns dropped
ReadCsv ==
    /\ train.pc = "read"
    /\ train' = [train EXCEPT !.pc = "binary", !.k = 1,
                              !.df = train.csv_columns \ IdColumns,
                              !.stages = Append(train.stages, "load")]
    /\ UNCHANGED <<bundle, bundle0, reqs, fn>>

\* the binary loop with a missing column skipped instead of raising
CoerceBinary_skipmissing ==
    /\ train.pc = "binary"
    /\ LET cols == BINARY_COLS \o <<TARGET>>
           c == cols[train.k]
           t == IF c \in train.df
                THEN [train EXCEPT !.coerced = train.coerced \cup {c}] ELSE train
       IN  train' = IF train.k = Len(cols)
                    THEN [t EXCEPT !.pc = "numeric", !.k = 1]
                    ELSE [t EXCEPT !.k = train.k + 1]
    /\ UNCHANGED <<bundle, bundle0, reqs, fn>>

\* lines 100-104, one column of BINARY_COLS + [TARGET] per step
CoerceBinary ==
    /\ train.pc = "binary"
    /\ LET cols == BINARY_COLS \o <<TARGET>>
           c == cols[train.k]
       IN  train' =
             IF c \notin train.df THEN Failed(train, "ValueError")
             ELSE IF train.k = Len(cols)
             THEN [train EXCEPT !.pc = "numeric", !.k = 1,
                                !.coerced = train.coerced \cup {c}]
             ELSE [train EXCEPT !.k = train.k + 1,
                                !.coerced = train.coerced \cup {c}]
    /\ UNCHANGED <<bundle, bundle0, reqs, fn>>

\* lines 107-118 and 203, one column of NUMERIC_COLS per step; after the last
\* one X, y and feature_order are returned and pi_train = y.mean()
CoerceNumeric ==
    /\ train.pc = "numeric"
    /\ LET c == NUMERIC_COLS[train.k]
       IN  train' =
             IF c \notin train.df THEN Failed(train, "ValueError")
             ELSE IF train.k = Len(NUMERIC_COLS)
             THEN [train EXCEPT !.pc = "split",
                                !.coerced = train.coerced \cup {c},
                                !.feature_order = NUMERIC_COLS \o BINARY_COLS,
                                !.stages = train.stages \o <<"validate", "encode">>]
             ELSE [train EXCEPT !.k = train.k + 1,
                                !.coerced = train.coerced \cup {c}]
    /\ UNCHANGED <<bundle, bundle0, reqs, fn>>

\* ceil(0.2 * n): the test size of train_test_split(test_size=0.2)
TestSize(n) == (n + 4) \div 5

\* The positives a stratified split may put in the training part: each class
\* gets the floor of its share of n_train, and a remaining row goes to the
\* class with the larger fractional share (either class on a tie).
TrainPositives(pos, neg) ==
    LET n == pos + neg
        n_train == n - TestSize(n)
        fpos == (pos * n_train) \div n
        fneg == (neg * n_train) \div n
        rpos == (pos * n_train) % n
        rneg == (neg * n_train) % n
    IN  IF fpos + fneg = n_train THEN {fpos}
        ELSE IF rpos > rneg THEN {fpos + 1}
        ELSE IF rpos < rneg THEN {fpos}
        ELSE {fpos, fpos + 1}

\* train_test_split raises ValueError on an empty training part, on a class
\* with a single member, and when a part is smaller than the number of classes
SplitRaises(pos, neg) ==
    LET n == pos + neg
        n_test == TestSize(n)
        n_classes == (IF pos > 0 THEN 1 ELSE 0) + (IF neg > 0 THEN 1 ELSE 0)
    IN  \/ n - n_test <= 0
        \/ pos = 1 \/ neg = 1
        \/ n - n_test < n_classes \/ n_test < n_classes

\* split_and_scale, lines 122-124
Split ==
    /\ train.pc = "split"
    /\ IF SplitRaises(train.pos, train.neg)
       THEN train' = Failed(train, "ValueError")
       ELSE \E pt \in TrainPositives(train.pos, train.neg) :
              train' = [train EXCEPT
                  !.pc = "fit_scaler",
                  !.pos_train = pt,
                  !.neg_train = (train.pos + train.neg)
                                   - TestSize(train.pos + train.neg) - pt,
                  !.stages = Append(train.stages, "split")]
    /\ UNCHANGED <<bundle, bundle0, reqs, fn>>

\* split_and_scale, lines 125-130
FitScaler ==
    /\ train.pc = "fit_scaler"
    /\ train' = [train EXCEPT !.pc = "configure",
                              !.stages = Append(train.stages, "fit_scaler")]
    /\ UNCHANGED <<bundle, bundle0, reqs, fn>>

\* the reweighting factor without the guard on pos
ScalePosWeight_noguard(pos, neg) == FDiv(FromInt(neg), FromInt(Max(pos, 1)))

\* train_calibrated_xgb, line 137: spw
ScalePosWeight(pos, neg) ==
    IF pos # 0 THEN FDiv(FromInt(neg), FromInt(Max(pos, 1))) ELSE FOne

\* train_calibrated_xgb, lines 135-153: the base classifier is configured
Configure ==
    /\ train.pc = "configure"
    /\ train' = [train EXCEPT !.pc = "fit",
                              !.spw = Some(ScalePosWeight(train.pos_train,
                                                          train.neg_train))]
    /\ UNCHANGED <<bundle, bundle0, reqs, fn>>

\* train_calibrated_xgb, lines 154-157: the five-fold calibrated fit.
\* CalibratedClassifierCV raises when a class of the training labels has
\* fewer than five members, the number of splits of skf; on labels of a
\* single class of five or more members the library may raise or not.
Fit ==
    /\ train.pc = "fit"
    /\ LET counts == {train.pos_train, train.neg_train} \ {0}
           short == \E c \in counts : c < 5
           oneClass == train.pos_train = 0 \/ train.neg_train = 0
       IN  \/ /\ ~short
              /\ train' = [train EXCEPT
                     !.pc = "evaluate",
                     !.stages = Append(train.stages, "fit_classifier")]
           \/ /\ short \/ oneClass
              /\ train' = Failed(train, "ValueError")
    /\ UNCHANGED <<bundle, bundle0, reqs, fn>>

\* evaluate, lines 160-174: roc_auc_score raises on test labels of one class
Evaluate ==
    /\ train.pc = "evaluate"
    /\ LET pos_test == train.pos - train.pos_train
           neg_test == train.neg - train.neg_train
       IN  train' = IF pos_test = 0 \/ neg_test = 0
                    THEN Failed(train, "ValueError")
                    ELSE [train EXCEPT !.pc = "persist", !.k = 1,
                                       !.stages = Append(train.stages, "evaluate")]
    /\ UNCHANGED <<bundle, bundle0, reqs, fn>>

\* save_artifacts, lines 178-194: scaler.pkl, model.pkl, then meta.json
Persist ==
    /\ train.pc = "persist"
    /\ train' = IF train.k = Len(ArtifactFiles)
                THEN [train EXCEPT !.pc = "done",
                                   !.written = train.written \cup {ArtifactFiles[train.k]},
                                   !.stages = Append(train.stages, "persist")]
                ELSE [train EXCEPT !.k = train.k + 1,
                                   !.written = train.written \cup {ArtifactFiles[train.k]}]
    /\ UNCHANGED <<bundle, bundle0, reqs, fn>>

MaxPos == 7
MaxNeg == 11

\* the CSVs: every expected column, or all but one; with or without an
\* identifier column; the file may also be missing
CsvColumnSets ==
    {ExpectedColumns} \cup {ExpectedColumns \ {c} : c \in ExpectedColumns}
        \cup {ExpectedColumns \cup {"patient_id"}}
        \cup {(ExpectedColumns \ {c}) \cup {"id"} : c \in {TARGET, "age"}}

InitTrain ==
    /\ bundle = Idle /\ bundle0 = Idle /\ reqs = Idle /\ fn = Idle
    /\ \E e \in BOOLEAN, cols \in CsvColumnSets, p \in 0 .. MaxPos, q \in 0 .. MaxNeg :
          train = [pc |-> "start", error |-> "", csv_exists |-> e,
                   csv_columns |-> cols, pos |-> p, neg |-> q,
                   df |-> {}, k |-> 0, coerced |-> {}, feature_order |-> <<>>,
                   pos_train |-> 0, neg_train |-> 0, spw |-> None,
                   stages |-> <<>>, written |-> {}]

NextTrain ==
    \/ CheckCsv \/ ReadCsv \/ CoerceBinary \/ CoerceNumeric \/ Split
    \/ FitScaler \/ Configure \/ Fit \/ Evaluate \/ Persist

SpecTrain == InitTrain /\ [][NextTrain]_vars

IsPrefix(s, t) == Len(s) <= Len(t) /\ SubSeq(t, 1, Len(s)) = s

\* C9: the completed stages are always an initial part of load, validate,
\* encode, split, fit scaler, fit classifier, evaluate, persist; an artifact is
\* written only after the seven stages before persist completed; a run whose
\* CSV lacks an expected column never completes split or any later stage,
\* writes no artifact, and can only end in an error.
C9_StagesInOrder ==
    /\ IsPrefix(train.stages, StageOrder)
    /\ train.written # {} => Len(train.stages) >= Len(StageOrder) - 1
    /\ train.pc = "done" => /\ train.stages = StageOrder
                            /\ train.written = Elems(ArtifactFiles)
    /\ ~(ExpectedColumns \subseteq train.csv_columns)
          => /\ train.written = {}
             /\ "split" \notin Elems(train.stages)
             /\ train.pc \in {"start", "read", "binary", "numeric", "failed"}
             /\ train.pc = "failed" => train.error = "ValueError" \/ ~train.csv_exists

\* a run on a CSV without the target column has ended with ValueError after
\* loading, with nothing written
C9_Witness ==
    /\ TARGET \notin train.csv_columns
    /\ train.pc = "failed" /\ train.error = "ValueError"
    /\ train.stages = <<"load">> /\ train.written = {}
    /\ Elems(BINARY_COLS) \subseteq train.coerced

\* C10 as stated: the factor is negativeCount / max(positiveCount, 1) over the
\* training labels, also when positiveCount = 0.
C10_Original ==
    ~IsNone(train.spw) =>
        Val(train.spw) = FDiv(FromInt(train.neg_train), FromInt(Max(train.pos_train, 1)))

\* C10 amended: the factor is negativeCount / max(positiveCount, 1) over the
\* training labels when positiveCount > 0, and 1.0 when positiveCount = 0.
C10_SpwGuarded ==
    ~IsNone(train.spw) =>
        /\ train.pos_train > 0 =>
              Val(train.spw) = FDiv(FromInt(train.neg_train), FromInt(train.pos_train))
        /\ train.pos_train = 0 => Val(train.spw) = FOne

\* the classifier was configured on training labels with no positive and
\* several negatives
C10_Witness ==
    /\ ~IsNone(train.spw) /\ train.pos_train = 0 /\ train.neg_train > 1
    /\ Val(train.spw) = FOne

(***************************************************************************)
(* Properties of predict_risk                                              *)
(***************************************************************************)
\* predict_risk run from start to end against bundle b: the response, or
\* None when parse_bin or the scaler raised
predict_risk(b, p, pi_deploy) ==
    LET features_raw == ParseFeatures(p)
        scaled == ScaleFeatures(b, features_raw)
        x_df == OrderedVector(b.FEATURE_ORDER, scaled.features)
        p_raw == _clip01(predict_proba(b.model, b.FEATURE_ORDER, x_df))
    IN  IF ParseRaises(p) \/ scaled.raised THEN None
        ELSE Some(Response(b, pi_deploy, features_raw, p_raw))

Answered(r) == reqs[r].pc = "done"
Resp(r) == Val(reqs[r].resp)

\* C1: adjusted_for_prevalence is true exactly when PI_TRAIN and the
\* effective deployment prevalence are both present and strictly inside
\* (0,1); otherwise it is false, adjusted_risk_percentage is null and
\* risk_percentage equals raw_risk_percentage.
C1_AdjustedIffBothValid ==
    \A r \in Requests : Answered(r) =>
        LET use == IF ~IsNone(reqs[r].pi_deploy) THEN reqs[r].pi_deploy
                   ELSE bundle.PI_DEPLOY
            both == ValidPrior(bundle.PI_TRAIN) /\ ValidPrior(use)
        IN  /\ Resp(r).adjusted_for_prevalence = both
            /\ ~both => /\ IsNone(Resp(r).adjusted_risk_percentage)
                        /\ Resp(r).risk_percentage = Resp(r).raw_risk_percentage

\* C2: the response's pi_deploy is the request's override when one is given
\* and PI_DEPLOY otherwise, an adjusted risk is computed with that value, and
\* with neither present the response says adjusted_for_prevalence = false and
\* pi_deploy = null.
C2_OverrideFirst ==
    \A r \in Requests : Answered(r) =>
        LET use == IF ~IsNone(reqs[r].pi_deploy) THEN reqs[r].pi_deploy
                   ELSE bundle.PI_DEPLOY
        IN  /\ Resp(r).pi_deploy = use
            /\ Resp(r).adjusted_for_prevalence =>
                  Resp(r).adjusted_risk_percentage =
                      _to_percent(Some(prior_adjust(reqs[r].p_raw, bundle.PI_TRAIN, use).val))
            /\ (IsNone(reqs[r].pi_deploy) /\ IsNone(bundle.PI_DEPLOY))
                  => /\ ~Resp(r).adjusted_for_prevalence
                     /\ IsNone(Resp(r).pi_deploy)
                     /\ IsNone(Resp(r).adjusted_risk_percentage)

\* a request overriding a valid process default with another valid value was
\* answered with an adjustment to its own value
C2_Witness ==
    \E r \in Requests :
        /\ Answered(r)
        /\ ValidPrior(reqs[r].pi_deploy) /\ ValidPrior(bundle.PI_DEPLOY)
        /\ ValidPrior(bundle.PI_TRAIN)
        /\ ~FEq(Val(reqs[r].pi_deploy), Val(bundle.PI_DEPLOY))
        /\ Resp(r).pi_deploy = reqs[r].pi_deploy
        /\ Resp(r).adjusted_for_prevalence

\* the vector C4 describes: FEATURE_ORDER's order, each numeric feature
\* standardized with the statistics persisted for that feature
C4_Expected(b, p) ==
    [i \in 1 .. Len(b.FEATURE_ORDER) |->
        LET name == b.FEATURE_ORDER[i]
            j == Index(b.NUMERIC_COLS, name)
        IN  IF name \in NumericNames
            THEN Standardize(parse_float(p[name], Zero),
                             b.scaler.mean_[j], b.scaler.scale_[j])
            ELSE parse_bin(p[name]).val]

\* C4: the vector given to the classifier lists the features in
\* FEATURE_ORDER, age and pack_years each standardized with its own persisted
\* mean and std, the binary features unchanged, whatever order NUMERIC_COLS
\* has.
C4_VectorStandardized ==
    \A r \in Requests : reqs[r].pc \in {"adjust", "done"} =>
        reqs[r].x_df = C4_Expected(bundle, reqs[r].p)

\* C7: every entry of the parsed features is a finite number: age and
\* pack_years finite, 0.0 when the raw value does not parse, each binary
\* feature 0 or 1; so are the numeric entries of the vector given to the
\* classifier.
C7_FeaturesFinite ==
    \A r \in Requests :
        /\ reqs[r].pc \in {"scale", "predict", "adjust", "done", "error"} =>
              \A name \in FeatureNames :
                  LET v == reqs[r].features_raw[name]
                  IN  IF name \in NumericNames
                      THEN /\ IsFinite(v)
                           /\ ~PyFloat(reqs[r].p[name]).ok => v = Zero
                      ELSE v \in {0, 1}
        /\ reqs[r].pc \in {"adjust", "done"} =>
              \A name \in NumericNames : IsFinite(reqs[r].features_scaled[name])

\* a step leaves a finished request as it is, and a request that finishes in
\* the step has the response (or the error) of predict_risk run
\* alone against the bundle as loaded
IsolatedStep(r) ==
    /\ reqs[r].pc \in {"done", "error"} => reqs'[r] = reqs[r]
    /\ (reqs[r].pc # "done" /\ reqs'[r].pc = "done") =>
          reqs'[r].resp = predict_risk(bundle0, reqs[r].p, reqs[r].pi_deploy)
    /\ (reqs[r].pc # "error" /\ reqs'[r].pc = "error") =>
          IsNone(predict_risk(bundle0, reqs[r].p, reqs[r].pi_deploy))
    /\ reqs'[r].p = reqs[r].p /\ reqs'[r].pi_deploy = reqs[r].pi_deploy

\* C8: no request writes the loaded bundle, and every request finishes with
\* the response (or the error) it gets when it runs alone against
\* the bundle as loaded, and keeps it.
C8_Isolated ==
    /\ [](bundle = bundle0)
    /\ [][\A r \in Requests : IsolatedStep(r)]_vars

\* two requests with different overrides have both been answered, each with
\* its own effective prevalence, and the bundle is as loaded
C8_Witness ==
    \E r1 \in Requests, r2 \in Requests :
        /\ Answered(r1) /\ Answered(r2)
        /\ ~IsNone(reqs[r1].pi_deploy) /\ IsNone(reqs[r2].pi_deploy)
        /\ ~IsNone(bundle0.PI_DEPLOY)
        /\ Resp(r1).pi_deploy = reqs[r1].pi_deploy
        /\ Resp(r2).pi_deploy = bundle0.PI_DEPLOY
        /\ Resp(r1).pi_deploy # Resp(r2).pi_deploy

=============================================================================
